---- MODULE Spec2Model ----
(***************************************************************************)
(* A model of the authentication core of go-template: the auth service     *)
(* (register, login, profile, e-mail verification, password reset) over    *)
(* the users table, and the JWT manager with the authentication            *)
(* middleware.                                                             *)
(*                                                                         *)
(* Every HTTP request runs on its own goroutine; the goroutines share only *)
(* the users table.  A request is modelled by a worker that executes the   *)
(* service method one store statement at a time, so that statements of     *)
(* different requests interleave freely.  Each SQL statement is atomic.    *)
(*                                                                         *)
(* Time is a counter of ticks; durations of the program are scaled to      *)
(* ticks keeping their order (30m <= 24h < 168h).                           *)
(***************************************************************************)
EXTENDS Integers, FiniteSets, Sequences, TLC

----------------------------------------------------------------------------
(* Bounds of the model *)

\* requests accepted in one run
MaxReq == 4
\* last tick of the clock
MaxTime == 2

----------------------------------------------------------------------------
(* Program constants *)

\* 24 * time.Hour, the lifetime of a verification or reset token, in ticks
TokenExpiry == 1
\* JWT_ACCESS_EXPIRES_IN default "30m", in ticks
AccessExpiresIn == 1
\* JWT_REFRESH_EXPIRES_IN default "168h", in ticks
RefreshExpiresIn == 2

\* SQL NULL of a nullable column (sql.NullString / sql.NullTime with Valid = false)
NULL == 0
\* NewRateLimiter(100, time.Minute): the limit scaled to 2 requests, the window
\* to one tick
RateLimit == 2
RateWindow == 1
\* sql.ErrNoRows of a :one query, in place of a row id
ErrNoRows == 0
\* a request token that is a non-empty string of fewer than 8 characters
ShortToken == -1
\* a 64 character hexadecimal string that was never generated by the program
UnknownToken == -2
\* a request token of 8 or more characters that is not a string of 64
\* hexadecimal characters
MalformedToken == -3

\* the goroutines that serve requests at the same time
Workers == {1, 2}
Emails == {"a@x", "b@x"}
Passwords == {"Str0ng!Pass", "0ther!Pass"}

VARIABLES
    users,      \* the users table: row id -> row
    nextId,     \* the SERIAL sequence of users.id
    nextToken,  \* the next value crypto/rand yields for a secret token
    now,        \* time.Now()
    pc,         \* per worker: where its request stands
    req,        \* per worker: the request it is serving
    loc,        \* per worker: the local variables of the service method
    last,       \* the call that returned last: worker, request, response, and
                \* what became of the e-mail it sent
    calls,      \* requests accepted so far
    sendCalls,  \* calls of smtp.SendMail so far
    resetRows,  \* reset token -> rows updated by ResetPassword statements with it
    jwtcfg,     \* config.JWT as loaded at start-up
    presented,  \* the token string last presented to the JWT manager
    verdict,    \* what the JWT manager / the middleware answered for it
    requests,   \* RateLimiter.requests: client address -> admitted timestamps
    mu,         \* RateLimiter.mu: who holds the lock
    frame,      \* per worker: where its Allow call stands, with its locals
    sweeper,    \* the cleanup goroutine: where it stands, with its locals
    admitted,   \* client address -> timestamps of all requests Allow admitted
    decision,   \* what the rate limit middleware answered last
    storeUp     \* whether the store answers the statements sent to it

vars == <<users, nextId, nextToken, now, pc, req, loc, last, calls, sendCalls,
          resetRows, jwtcfg, presented, verdict, requests, mu, frame, sweeper,
          admitted, decision, storeUp>>

storeVars == <<users, nextId, nextToken, pc, req, loc, last, calls, sendCalls, resetRows>>
jwtVars == <<jwtcfg, presented, verdict>>
limiterVars == <<requests, mu, frame, sweeper, admitted, decision>>

----------------------------------------------------------------------------
(* config.Load: the JWT section *)

\* values the environment may give a secret ("" is: not set)
EnvValues == {"", "k1"}

getEnv(value, defaultValue) == IF value # "" THEN value ELSE defaultValue

Load(envAccess, envRefresh) ==
    [AccessSecret  |-> getEnv(envAccess, "your-super-secret-access-key-change-this-in-production"),
     RefreshSecret |-> getEnv(envRefresh, "your-super-secret-refresh-key-change-this-in-production")]

----------------------------------------------------------------------------
(* pkg/jwt: a signed token is the record of its claims, the algorithm its *)
(* header names and the key its signature was computed with.              *)

\* the signing methods of type *jwt.SigningMethodHMAC
HMACMethods == {"HS256", "HS384", "HS512"}
\* header algorithms a client may write into a token
Algorithms == {"HS256", "HS384", "none"}

\* a string that does not parse as a JWT
Malformed == [user_id |-> 0, email |-> "", exp |-> 0, nbf |-> 0, iat |-> 0,
              alg |-> "malformed", key |-> ""]

generateToken(userID, email, secret, expiration, t) ==
    [user_id |-> userID, email |-> email,
     exp |-> t + expiration, nbf |-> t, iat |-> t,
     alg |-> "HS256", key |-> secret]

GenerateTokenPair(userID, email, cfg, t) ==
    [AccessToken  |-> generateToken(userID, email, cfg.AccessSecret, AccessExpiresIn, t),
     RefreshToken |-> generateToken(userID, email, cfg.RefreshSecret, RefreshExpiresIn, t)]

NoClaims == [user_id |-> 0, email |-> ""]

\* validateToken without the errors.Is(err, jwt.ErrTokenExpired) branch: every
\* error of the library becomes ErrInvalidToken
validateTokenNoExpiredKind(tok, secret, t) ==
    IF tok.alg = "malformed" THEN [err |-> "ErrInvalidToken", claims |-> NoClaims]
    ELSE IF tok.alg \notin HMACMethods THEN [err |-> "ErrInvalidToken", claims |-> NoClaims]
    ELSE IF tok.key # secret THEN [err |-> "ErrInvalidToken", claims |-> NoClaims]
    ELSE IF ~(t < tok.exp) THEN [err |-> "ErrInvalidToken", claims |-> NoClaims]
    ELSE IF t < tok.nbf THEN [err |-> "ErrInvalidToken", claims |-> NoClaims]
    ELSE [err |-> "nil", claims |-> [user_id |-> tok.user_id, email |-> tok.email]]

\* jwt.ParseWithClaims with the key function of validateToken, at time t:
\* parse, the key function (signing method), the signature, then the
\* registered claims exp and nbf with no leeway; then the mapping of the
\* library's error to the package's error.
validateToken(tok, secret, t) ==
    IF tok.alg = "malformed" THEN [err |-> "ErrInvalidToken", claims |-> NoClaims]
    ELSE IF tok.alg \notin HMACMethods THEN [err |-> "ErrInvalidToken", claims |-> NoClaims]
    ELSE IF tok.key # secret THEN [err |-> "ErrInvalidToken", claims |-> NoClaims]
    ELSE IF ~(t < tok.exp) THEN [err |-> "ErrExpiredToken", claims |-> NoClaims]
    ELSE IF t < tok.nbf THEN [err |-> "ErrInvalidToken", claims |-> NoClaims]
    ELSE [err |-> "nil", claims |-> [user_id |-> tok.user_id, email |-> tok.email]]

ValidateAccessToken(tok, cfg, t) == validateToken(tok, cfg.AccessSecret, t)

ValidateRefreshToken(tok, cfg, t) == validateToken(tok, cfg.RefreshSecret, t)

\* RefreshAccessToken that validates with the access validator
RefreshAccessTokenByAccess(tok, cfg, t) ==
    LET v == ValidateAccessToken(tok, cfg, t) IN
    IF v.err # "nil" THEN [err |-> v.err, token |-> Malformed]
    ELSE [err |-> "nil",
          token |-> generateToken(v.claims.user_id, v.claims.email,
                                  cfg.AccessSecret, AccessExpiresIn, t)]

\* the new access token, or Malformed with the error when the refresh token is refused
RefreshAccessToken(tok, cfg, t) ==
    LET v == ValidateRefreshToken(tok, cfg, t) IN
    IF v.err # "nil" THEN [err |-> v.err, token |-> Malformed]
    ELSE [err |-> "nil",
          token |-> generateToken(v.claims.user_id, v.claims.email,
                                  cfg.AccessSecret, AccessExpiresIn, t)]

----------------------------------------------------------------------------
(* The users table and the statements of db/queries/users.sql.  A row     *)
(* carries the columns the auth core reads or writes; name and the two    *)
(* timestamps are left out.                                               *)

\* INSERT of CreateUserWithPassword: email_verified and the reset columns take
\* their column defaults
NewRow(email, passwordHash, role, token, expiresAt) ==
    [email |-> email, password_hash |-> passwordHash, role |-> role,
     email_verified |-> FALSE,
     email_verification_token |-> token,
     email_verification_expires_at |-> expiresAt,
     password_reset_token |-> NULL,
     password_reset_expires_at |-> NULL]

\* the users.email uniqueness the store enforces on INSERT
EmailTaken(email) == \E i \in DOMAIN users : users[i].email = email

\* the query with another column in its WHERE clause: no row matches an email
GetByEmailOtherColumn(email) ==
    IF \E i \in DOMAIN users : users[i].role = email
    THEN CHOOSE i \in DOMAIN users : users[i].role = email
    ELSE ErrNoRows

\* the query without its WHERE clause: the first row of the table
GetByEmailAnyRow(email) ==
    IF DOMAIN users # {} THEN CHOOSE i \in DOMAIN users : TRUE ELSE ErrNoRows

\* GetUserByEmail / GetUserByEmailWithPassword: the id of the row, or ErrNoRows
GetByEmail(email) ==
    IF \E i \in DOMAIN users : users[i].email = email
    THEN CHOOSE i \in DOMAIN users : users[i].email = email
    ELSE ErrNoRows

\* GetUser
GetByID(id) == IF id \in DOMAIN users THEN id ELSE ErrNoRows

\* the query with AND email_verified = FALSE in its WHERE clause
GetByVerificationTokenUnverified(token) ==
    LET hit == {i \in DOMAIN users : /\ users[i].email_verification_token # NULL
                                     /\ users[i].email_verification_token = token
                                     /\ ~users[i].email_verified}
    IN IF hit # {} THEN CHOOSE i \in hit : TRUE ELSE ErrNoRows

\* GetUserByVerificationToken (a NULL column matches no parameter)
GetByVerificationToken(token) ==
    LET hit == {i \in DOMAIN users : /\ users[i].email_verification_token # NULL
                                     /\ users[i].email_verification_token = token}
    IN IF hit # {} THEN CHOOSE i \in hit : TRUE ELSE ErrNoRows

\* GetUserByPasswordResetToken
GetByPasswordResetToken(token) ==
    LET hit == {i \in DOMAIN users : /\ users[i].password_reset_token # NULL
                                     /\ users[i].password_reset_token = token}
    IN IF hit # {} THEN CHOOSE i \in hit : TRUE ELSE ErrNoRows

\* CreateUserWithPassword / CreateUser: the table with the new row under the next id
InsertUser(row) == users @@ (nextId :> row)

\* DeleteUser
DeleteUserRow(id) == [i \in DOMAIN users \ {id} |-> users[i]]

\* the statement without email_verified = TRUE in its SET clause
VerifyEmailClearsOnly(token) ==
    [i \in DOMAIN users |->
        IF users[i].email_verification_token # NULL
           /\ users[i].email_verification_token = token
        THEN [users[i] EXCEPT !.email_verification_token = NULL,
                              !.email_verification_expires_at = NULL]
        ELSE users[i]]

\* VerifyEmailByToken: UPDATE ... WHERE email_verification_token = $1
VerifyEmailByToken(token) ==
    [i \in DOMAIN users |->
        IF users[i].email_verification_token # NULL
           /\ users[i].email_verification_token = token
        THEN [users[i] EXCEPT !.email_verified = TRUE,
                              !.email_verification_token = NULL,
                              !.email_verification_expires_at = NULL]
        ELSE users[i]]

\* the statement without email_verification_token in its SET clause
UpdateVerificationTokenExpiryOnly(id, token, expiresAt) ==
    [i \in DOMAIN users |->
        IF i = id THEN [users[i] EXCEPT !.email_verification_expires_at = expiresAt]
        ELSE users[i]]

\* UpdateVerificationToken: UPDATE ... WHERE id = $1
UpdateVerificationToken(id, token, expiresAt) ==
    [i \in DOMAIN users |->
        IF i = id
        THEN [users[i] EXCEPT !.email_verification_token = token,
                              !.email_verification_expires_at = expiresAt]
        ELSE users[i]]

\* UpdatePasswordResetToken: UPDATE ... WHERE id = $1
\* the statement without password_reset_expires_at in its SET clause
UpdatePasswordResetTokenNoExpiry(id, token, expiresAt) ==
    [i \in DOMAIN users |->
        IF i = id THEN [users[i] EXCEPT !.password_reset_token = token]
        ELSE users[i]]

UpdatePasswordResetToken(id, token, expiresAt) ==
    [i \in DOMAIN users |->
        IF i = id
        THEN [users[i] EXCEPT !.password_reset_token = token,
                              !.password_reset_expires_at = expiresAt]
        ELSE users[i]]

\* the statement without password_reset_token = NULL in its SET clause
ResetPasswordKeepsToken(token, passwordHash) ==
    [i \in DOMAIN users |->
        IF users[i].password_reset_token # NULL
           /\ users[i].password_reset_token = token
        THEN [users[i] EXCEPT !.password_hash = passwordHash,
                              !.password_reset_expires_at = NULL]
        ELSE users[i]]

\* the statement without password_hash = $2 in its SET clause
ResetPasswordClearsOnly(token, passwordHash) ==
    [i \in DOMAIN users |->
        IF users[i].password_reset_token # NULL
           /\ users[i].password_reset_token = token
        THEN [users[i] EXCEPT !.password_reset_token = NULL,
                              !.password_reset_expires_at = NULL]
        ELSE users[i]]

\* ResetPassword: UPDATE ... WHERE password_reset_token = $1
ResetPasswordByToken(token, passwordHash) ==
    [i \in DOMAIN users |->
        IF users[i].password_reset_token # NULL
           /\ users[i].password_reset_token = token
        THEN [users[i] EXCEPT !.password_hash = passwordHash,
                              !.password_reset_token = NULL,
                              !.password_reset_expires_at = NULL]
        ELSE users[i]]

\* rows the ResetPassword statement updates
ResetPasswordMatches(token) ==
    Cardinality({i \in DOMAIN users : /\ users[i].password_reset_token # NULL
                                      /\ users[i].password_reset_token = token})

----------------------------------------------------------------------------
(* bcrypt *)

\* password_hash of a row created without a password (column default '')
EmptyHash == <<>>

\* bcrypt.GenerateFromPassword(password, 12)
hashPassword(password) == <<"$2a$12$", password>>

\* a comparison that skips users without a password
verifyPasswordEmptyOk(password, hashedPassword) ==
    \/ Len(hashedPassword) = 0
    \/ /\ Len(hashedPassword) = 2
       /\ hashedPassword[1] = "$2a$12$"
       /\ hashedPassword[2] = password

\* bcrypt.CompareHashAndPassword: TRUE when it returns nil; a hash that is
\* empty or not a bcrypt hash is an error like a mismatch
verifyPassword(password, hashedPassword) ==
    /\ Len(hashedPassword) = 2
    /\ hashedPassword[1] = "$2a$12$"
    /\ hashedPassword[2] = password

\* time.Now().Before(*expiresAt) in place of After
ExpiredBefore(expiresAt, t) == expiresAt # NULL /\ t < expiresAt

\* time.Now().After(*expiresAt) on a non-nil expiry
\* the service without its expiry checks
ExpiredNever(expiresAt, t) == FALSE

Expired(expiresAt, t) == expiresAt # NULL /\ t > expiresAt

----------------------------------------------------------------------------
(* Requests, locals and responses *)

Request(op, email, password, token, id) ==
    [op |-> op, email |-> email, password |-> password, token |-> token, id |-> id]

NoRequest == Request("none", "", "", NULL, 0)

Locals(id, hash, token, expiresAt) ==
    [id |-> id, hash |-> hash, token |-> token, expiresAt |-> expiresAt, err |-> "nil"]

NoLocals == Locals(0, EmptyHash, NULL, NULL)

NoUser == [id |-> 0, email |-> "", role |-> "", email_verified |-> FALSE]

NoTokens == [AccessToken |-> Malformed, RefreshToken |-> Malformed]

\* dto.UserResponse / dto.UserProfileResponse of a row
UserView(id, row) ==
    [id |-> id, email |-> row.email, role |-> row.role,
     email_verified |-> row.email_verified]

\* what the service method returns: the error (or "nil"), the Success flag and
\* Message of the response struct, and the data of an auth response
Response(err, success, message, user, tokens) ==
    [err |-> err, success |-> success, message |-> message,
     user |-> user, tokens |-> tokens]

NoResponse == Response("none", FALSE, "", NoUser, NoTokens)

Failure(err, message) == Response(err, FALSE, message, NoUser, NoTokens)

\* what was answered for the presented token: by which operation, the error
\* (or "nil") and the claims of the JWT manager, the access token minted, the
\* time of the call, and for the middleware the HTTP status and message of
\* its own response, whether it called the next handler, and the part of the
\* Authorization header before the token; for a role policy also the number
\* of the request, its resource-id path parameter and the user_role it put
\* into the request context
Verdict(op, err, claims, minted, at, status, message, next) ==
    [op |-> op, err |-> err, claims |-> claims, minted |-> minted, at |-> at,
     status |-> status, message |-> message, next |-> next, prefix |-> "",
     call |-> 0, param |-> "", role |-> ""]

NoVerdict == Verdict("none", "none", NoClaims, Malformed, 0, 0, "", FALSE)

\* the state after construction, but for the configuration
\* client addresses (echo's RealIP)
Clients == {"10.0.0.1", "10.0.0.2"}

\* the locals of an Allow call: the address and time.Now() read under the lock
Frame(label, identifier, t) == [pc |-> label, identifier |-> identifier, now |-> t]
NoFrame == Frame("idle", "", 0)

\* the answer of RateLimitMiddleware to the request of a client at time t
Decision(identifier, t, allowed, status, next) ==
    [identifier |-> identifier, at |-> t, allowed |-> allowed,
     status |-> status, next |-> next]
NoDecision == Decision("", 0, FALSE, 0, FALSE)

\* the cleanup goroutine: waiting for its ticker, or inside one sweep with
\* the time.Now() it read, the keys its range loop has visited and those it
\* has yet to visit
Sweep(label, t, done, todo) == [pc |-> label, now |-> t, done |-> done, todo |-> todo]
Waiting == Sweep("wait", 0, {}, {})

InitState ==
    /\ users = <<>>
    /\ nextId = 1
    /\ nextToken = 1
    /\ now = 0
    /\ pc = [w \in Workers |-> "idle"]
    /\ req = [w \in Workers |-> NoRequest]
    /\ loc = [w \in Workers |-> NoLocals]
    /\ last = [w |-> 0, req |-> NoRequest, resp |-> NoResponse, sent |-> "none"]
    /\ calls = 0
    /\ sendCalls = 0
    /\ resetRows = [t \in {} |-> 0]
    /\ presented = Malformed
    /\ verdict = NoVerdict
    /\ requests = <<>>
    /\ mu = "unlocked"
    /\ frame = [w \in Workers |-> NoFrame]
    /\ sweeper = Waiting
    /\ admitted = [id \in Clients |-> <<>>]
    /\ decision = NoDecision
    /\ storeUp = TRUE

\* the service with the configuration of an empty environment
Init ==
    /\ InitState
    /\ jwtcfg = Load("", "")

\* the handler accepts request r on goroutine w
Accept(w) ==
    /\ pc[w] = "idle"
    /\ calls < MaxReq
    /\ calls' = calls + 1

\* the service method, called with request q, returns r; sent: what
\* sendEmail returned during the call ("none": it was not called)
Returning(w, q, r, sent) ==
    /\ pc' = [pc EXCEPT ![w] = "idle"]
    /\ req' = [req EXCEPT ![w] = NoRequest]
    /\ loc' = [loc EXCEPT ![w] = NoLocals]
    /\ last' = [w |-> w, req |-> q, resp |-> r, sent |-> sent]

\* the service method returns r without having sent an e-mail
Return(w, q, r) == Returning(w, q, r, "none")

\* what smtp.SendMail returned
Outcome(delivered) == IF delivered THEN "ok" ELSE "failed"

\* the service method, called with request q, goes on to its next store
\* statement
Goto(w, q, label, l) ==
    /\ pc' = [pc EXCEPT ![w] = label]
    /\ req' = [req EXCEPT ![w] = q]
    /\ loc' = [loc EXCEPT ![w] = l]
    /\ UNCHANGED last

\* sendEmail: one call of smtp.SendMail
Send == sendCalls' = sendCalls + 1

Tick ==
    /\ now < MaxTime
    /\ now' = now + 1
    /\ UNCHANGED <<storeVars, jwtVars, limiterVars, storeUp>>

----------------------------------------------------------------------------
(* authService.Register *)

\* GetByEmail, then the password hash, the verification token and its expiry.
\* dbErr: the lookup fails with an error other than sql.ErrNoRows.
RegisterLookup(w, email, password, dbErr) ==
    LET q == Request("Register", email, password, NULL, 0) IN
    /\ Accept(w)
    /\ IF ~dbErr /\ GetByEmail(email) # ErrNoRows
       THEN /\ Return(w, q, Failure("ErrUserAlreadyExists", ""))
            /\ UNCHANGED nextToken
       ELSE /\ Goto(w, q, "Register:create",
                    [Locals(0, hashPassword(password), nextToken, now + TokenExpiry)
                        EXCEPT !.err = IF dbErr THEN "database error" ELSE "sql.ErrNoRows"])
            /\ nextToken' = nextToken + 1
    /\ UNCHANGED <<users, nextId, now, sendCalls, resetRows, jwtVars, limiterVars, storeUp>>

\* Register returning the error of SendVerificationEmail
RegisterCreateFailsOnSend(w, dbErr, delivered) ==
    LET q == req[w] IN
    /\ pc[w] = "Register:create"
    /\ IF dbErr \/ EmailTaken(req[w].email)
       THEN /\ Return(w, q, Failure("failed to create user", ""))
            /\ UNCHANGED <<users, nextId, sendCalls>>
       ELSE LET row == NewRow(req[w].email, loc[w].hash, "user",
                              loc[w].token, loc[w].expiresAt)
            IN /\ users' = InsertUser(row)
               /\ nextId' = nextId + 1
               /\ Send
               /\ IF delivered
                  THEN Returning(w, q, Response("nil", TRUE, "", UserView(nextId, row),
                                                GenerateTokenPair(nextId, row.email, jwtcfg, now)),
                                 "ok")
                  ELSE Returning(w, q, Failure("failed to send verification email", ""),
                                 "failed")
    /\ UNCHANGED <<nextToken, now, calls, resetRows, jwtVars, limiterVars, storeUp>>

\* CreateWithPasswordAndRole, SendVerificationEmail, GenerateTokenPair
RegisterCreate(w, dbErr, delivered) ==
    LET q == req[w] IN
    /\ pc[w] = "Register:create"
    /\ IF dbErr \/ EmailTaken(req[w].email)
       THEN /\ Return(w, q, Failure("failed to create user", ""))
            /\ UNCHANGED <<users, nextId, sendCalls>>
       ELSE LET row == NewRow(req[w].email, loc[w].hash, "user",
                              loc[w].token, loc[w].expiresAt)
            IN /\ users' = InsertUser(row)
               /\ nextId' = nextId + 1
               /\ Send
               /\ Returning(w, q, Response("nil", TRUE, "", UserView(nextId, row),
                                           GenerateTokenPair(nextId, row.email, jwtcfg, now)),
                            Outcome(delivered))
    /\ UNCHANGED <<nextToken, now, calls, resetRows, jwtVars, limiterVars, storeUp>>

----------------------------------------------------------------------------
(* authService.Login *)

Login(w, email, password, dbErr) ==
    LET q == Request("Login", email, password, NULL, 0) IN
    /\ Accept(w)
    /\ LET id == GetByEmail(email) IN
       IF dbErr THEN Return(w, q, Failure("authentication failed", ""))
       ELSE IF id = ErrNoRows THEN Return(w, q, Failure("ErrInvalidCredentials", ""))
       ELSE IF ~verifyPassword(password, users[id].password_hash)
            THEN Return(w, q, Failure("ErrInvalidCredentials", ""))
       ELSE Return(w, q, Response("nil", TRUE, "", UserView(id, users[id]),
                               GenerateTokenPair(id, users[id].email, jwtcfg, now)))
    /\ UNCHANGED <<users, nextId, nextToken, now, sendCalls, resetRows, jwtVars, limiterVars, storeUp>>

----------------------------------------------------------------------------
(* authService.GetUserProfile *)

GetUserProfile(w, userID, dbErr) ==
    LET q == Request("GetUserProfile", "", "", NULL, userID) IN
    /\ Accept(w)
    /\ IF dbErr THEN Return(w, q, Failure("failed to get user profile", ""))
       ELSE IF GetByID(userID) = ErrNoRows THEN Return(w, q, Failure("user not found", ""))
       ELSE Return(w, q, Response("nil", TRUE, "", UserView(userID, users[userID]), NoTokens))
    /\ UNCHANGED <<users, nextId, nextToken, now, sendCalls, resetRows, jwtVars, limiterVars, storeUp>>

----------------------------------------------------------------------------
(* authService.RefreshToken *)

\* jwtManager.RefreshAccessToken on the token of the request; the response
\* carries the new access token and no refresh token
RefreshToken(w, tok) ==
    LET q == Request("RefreshToken", "", "", NULL, 0)
        r == RefreshAccessToken(tok, jwtcfg, now) IN
    /\ Accept(w)
    /\ presented' = tok
    /\ IF r.err # "nil"
       THEN Return(w, q, Failure("invalid refresh token", ""))
       ELSE Return(w, q, Response("nil", TRUE, "", NoUser,
                                  [AccessToken |-> r.token, RefreshToken |-> Malformed]))
    /\ UNCHANGED <<users, nextId, nextToken, now, sendCalls, resetRows, jwtcfg, verdict, limiterVars, storeUp>>

----------------------------------------------------------------------------
(* authService.VerifyEmail *)

\* req.Token[:8] for the log line, GetByVerificationToken, the verified and
\* the expiry checks
VerifyEmailLookup(w, token, dbErr) ==
    LET q == Request("VerifyEmail", "", "", token, 0) IN
    /\ Accept(w)
    /\ LET id == GetByVerificationToken(token) IN
       IF token = ShortToken
       THEN Return(w, q, Failure("panic", "slice bounds out of range"))
       ELSE IF dbErr
       THEN Return(w, q, Failure("verification failed", "Verification failed"))
       ELSE IF id = ErrNoRows
       THEN Return(w, q, Failure("ErrInvalidVerificationToken",
                              "Invalid or expired verification token"))
       ELSE IF users[id].email_verified
       THEN Return(w, q, Failure("ErrEmailAlreadyVerified", "Email is already verified"))
       ELSE IF Expired(users[id].email_verification_expires_at, now)
       THEN Return(w, q, Failure("ErrInvalidVerificationToken",
                              "Verification token has expired"))
       ELSE Goto(w, q, "VerifyEmail:update", Locals(id, EmptyHash, NULL, NULL))
    /\ UNCHANGED <<users, nextId, nextToken, now, sendCalls, resetRows, jwtVars, limiterVars, storeUp>>

\* userRepo.VerifyEmail(token)
VerifyEmailUpdate(w, dbErr) ==
    LET q == req[w] IN
    /\ pc[w] = "VerifyEmail:update"
    /\ IF dbErr
       THEN /\ Return(w, q, Failure("verification failed", "Verification failed"))
            /\ UNCHANGED users
       ELSE /\ users' = VerifyEmailByToken(req[w].token)
            /\ Return(w, q, Response("nil", TRUE, "Email verified successfully",
                                  NoUser, NoTokens))
    /\ UNCHANGED <<nextId, nextToken, now, calls, sendCalls, resetRows, jwtVars, limiterVars, storeUp>>

----------------------------------------------------------------------------
(* authService.ResendVerificationEmail *)

ResendLookup(w, email, dbErr) ==
    LET q == Request("ResendVerificationEmail", email, "", NULL, 0) IN
    /\ Accept(w)
    /\ LET id == GetByEmail(email) IN
       IF dbErr
       THEN /\ Return(w, q, Failure("failed to resend verification email",
                                 "Failed to resend verification email"))
            /\ UNCHANGED nextToken
       ELSE IF id = ErrNoRows
       THEN /\ Return(w, q, Failure("user not found", "User not found"))
            /\ UNCHANGED nextToken
       ELSE IF users[id].email_verified
       THEN /\ Return(w, q, Failure("ErrEmailAlreadyVerified", "Email is already verified"))
            /\ UNCHANGED nextToken
       ELSE /\ Goto(w, q, "Resend:update",
                    Locals(id, EmptyHash, nextToken, now + TokenExpiry))
            /\ nextToken' = nextToken + 1
    /\ UNCHANGED <<users, nextId, now, sendCalls, resetRows, jwtVars, limiterVars, storeUp>>

\* userRepo.UpdateVerificationToken, then SendVerificationEmail
ResendUpdate(w, dbErr, delivered) ==
    LET q == req[w] IN
    /\ pc[w] = "Resend:update"
    /\ IF dbErr
       THEN /\ Return(w, q, Failure("failed to update verification token",
                                 "Failed to update verification token"))
            /\ UNCHANGED <<users, sendCalls>>
       ELSE /\ users' = UpdateVerificationToken(loc[w].id, loc[w].token, loc[w].expiresAt)
            /\ Send
            /\ IF delivered
               THEN Returning(w, q, Response("nil", TRUE, "Verification email sent successfully",
                                             NoUser, NoTokens), "ok")
               ELSE Returning(w, q, Failure("failed to send verification email",
                                            "Failed to send verification email"), "failed")
    /\ UNCHANGED <<nextId, nextToken, now, calls, resetRows, jwtVars, limiterVars, storeUp>>

----------------------------------------------------------------------------
(* authService.ForgotPassword *)

GenericForgotMessage ==
    "If your email is registered, you will receive a password reset link shortly"

ForgotLookup(w, email, dbErr) ==
    LET q == Request("ForgotPassword", email, "", NULL, 0) IN
    /\ Accept(w)
    /\ LET id == GetByEmail(email) IN
       IF dbErr
       THEN /\ Return(w, q, Failure("failed to process password reset request",
                                 "Failed to process password reset request"))
            /\ UNCHANGED nextToken
       ELSE IF id = ErrNoRows
       THEN /\ Return(w, q, Response("nil", TRUE, GenericForgotMessage, NoUser, NoTokens))
            /\ UNCHANGED nextToken
       ELSE /\ Goto(w, q, "Forgot:update",
                    Locals(id, EmptyHash, nextToken, now + TokenExpiry))
            /\ nextToken' = nextToken + 1
    /\ UNCHANGED <<users, nextId, now, sendCalls, resetRows, jwtVars, limiterVars, storeUp>>

\* userRepo.UpdatePasswordResetToken, then SendPasswordResetEmail
ForgotUpdate(w, dbErr, delivered) ==
    LET q == req[w] IN
    /\ pc[w] = "Forgot:update"
    /\ IF dbErr
       THEN /\ Return(w, q, Failure("failed to update password reset token",
                                 "Failed to update password reset token"))
            /\ UNCHANGED <<users, sendCalls>>
       ELSE /\ users' = UpdatePasswordResetToken(loc[w].id, loc[w].token, loc[w].expiresAt)
            /\ Send
            /\ IF delivered
               THEN Returning(w, q, Response("nil", TRUE, GenericForgotMessage,
                                             NoUser, NoTokens), "ok")
               ELSE Returning(w, q, Failure("failed to send password reset email",
                                            "Failed to send password reset email"), "failed")
    /\ UNCHANGED <<nextId, nextToken, now, calls, resetRows, jwtVars, limiterVars, storeUp>>

----------------------------------------------------------------------------
(* authService.ResetPassword *)

\* req.Token[:8] for the log line, GetByPasswordResetToken, the expiry check,
\* the hash of the new password
ResetLookup(w, token, password, dbErr) ==
    LET q == Request("ResetPassword", "", password, token, 0) IN
    /\ Accept(w)
    /\ LET id == GetByPasswordResetToken(token) IN
       IF token = ShortToken
       THEN Return(w, q, Failure("panic", "slice bounds out of range"))
       ELSE IF dbErr
       THEN Return(w, q, Failure("password reset failed", "Password reset failed"))
       ELSE IF id = ErrNoRows
       THEN Return(w, q, Failure("ErrInvalidPasswordResetToken",
                              "Invalid or expired password reset token"))
       ELSE IF Expired(users[id].password_reset_expires_at, now)
       THEN Return(w, q, Failure("ErrInvalidPasswordResetToken",
                              "Password reset token has expired"))
       ELSE Goto(w, q, "Reset:update", Locals(id, hashPassword(password), NULL, NULL))
    /\ UNCHANGED <<users, nextId, nextToken, now, sendCalls, resetRows, jwtVars, limiterVars, storeUp>>

\* userRepo.ResetPassword(token, hashedPassword)
ResetUpdate(w, dbErr) ==
    LET q == req[w] IN
    /\ pc[w] = "Reset:update"
    /\ IF dbErr
       THEN /\ Return(w, q, Failure("failed to reset password", "Failed to reset password"))
            /\ UNCHANGED <<users, resetRows>>
       ELSE /\ users' = ResetPasswordByToken(req[w].token, loc[w].hash)
            /\ resetRows' =
                 LET t == req[w].token
                     n == IF t \in DOMAIN resetRows THEN resetRows[t] ELSE 0
                 IN IF ResetPasswordMatches(t) = 0 THEN resetRows
                    ELSE [x \in DOMAIN resetRows \cup {t} |->
                            IF x = t THEN n + ResetPasswordMatches(t) ELSE resetRows[x]]
            /\ Return(w, q, Response("nil", TRUE, "Password reset successfully",
                                  NoUser, NoTokens))
    /\ UNCHANGED <<nextId, nextToken, now, calls, sendCalls, jwtVars, limiterVars, storeUp>>

----------------------------------------------------------------------------
(* userService.CreateUser and userService.DeleteUser *)

CreateUserLookup(w, email, dbErr) ==
    LET q == Request("CreateUser", email, "", NULL, 0) IN
    /\ Accept(w)
    /\ IF ~dbErr /\ GetByEmail(email) # ErrNoRows
       THEN Return(w, q, Failure("user with this email already exists", ""))
       ELSE Goto(w, q, "CreateUser:create", NoLocals)
    /\ UNCHANGED <<users, nextId, nextToken, now, sendCalls, resetRows, jwtVars, limiterVars, storeUp>>

\* userRepo.Create: INSERT INTO users (name, email); every other column takes
\* its default
CreateUserCreate(w, dbErr) ==
    LET q == req[w] IN
    /\ pc[w] = "CreateUser:create"
    /\ IF dbErr \/ EmailTaken(req[w].email)
       THEN /\ Return(w, q, Failure("failed to create user", ""))
            /\ UNCHANGED <<users, nextId>>
       ELSE LET row == NewRow(req[w].email, EmptyHash, "user", NULL, NULL)
            IN /\ users' = InsertUser(row)
               /\ nextId' = nextId + 1
               /\ Return(w, q, Response("nil", TRUE, "", UserView(nextId, row), NoTokens))
    /\ UNCHANGED <<nextToken, now, calls, sendCalls, resetRows, jwtVars, limiterVars, storeUp>>

DeleteUserLookup(w, id, dbErr) ==
    LET q == Request("DeleteUser", "", "", NULL, id) IN
    /\ Accept(w)
    /\ IF dbErr THEN Return(w, q, Failure("database error", ""))
       ELSE IF GetByID(id) = ErrNoRows THEN Return(w, q, Failure("user not found", ""))
       ELSE Goto(w, q, "DeleteUser:delete", Locals(id, EmptyHash, NULL, NULL))
    /\ UNCHANGED <<users, nextId, nextToken, now, sendCalls, resetRows, jwtVars, limiterVars, storeUp>>

DeleteUserDelete(w, dbErr) ==
    LET q == req[w] IN
    /\ pc[w] = "DeleteUser:delete"
    /\ IF dbErr
       THEN /\ Return(w, q, Failure("database error", ""))
            /\ UNCHANGED users
       ELSE /\ users' = DeleteUserRow(loc[w].id)
            /\ Return(w, q, Response("nil", TRUE, "", NoUser, NoTokens))
    /\ UNCHANGED <<nextId, nextToken, now, calls, sendCalls, resetRows, jwtVars, limiterVars, storeUp>>

----------------------------------------------------------------------------------------------------------------------------------------
(* The service under concurrent requests, with a store that answers every *)
(* statement.  Each specification runs the operations of one flow.        *)

\* token strings a client may send: too short, well-formed but never
\* generated, and every token generated so far
TokenInputs == {ShortToken, UnknownToken} \cup (1..(nextToken - 1))

\* user ids an access token may carry
IssuedIds == 1..(nextId - 1)

\* registration, login and the administration of users
NextAccounts ==
    \/ \E w \in Workers, e \in Emails, p \in Passwords : RegisterLookup(w, e, p, FALSE)
    \/ \E w \in Workers, d \in BOOLEAN : RegisterCreate(w, FALSE, d)
    \/ \E w \in Workers, e \in Emails, p \in Passwords : Login(w, e, p, FALSE)
    \/ \E w \in Workers, e \in Emails : CreateUserLookup(w, e, FALSE)
    \/ \E w \in Workers : CreateUserCreate(w, FALSE)
    \/ \E w \in Workers, i \in IssuedIds : DeleteUserLookup(w, i, FALSE)
    \/ \E w \in Workers : DeleteUserDelete(w, FALSE)

SpecAccounts == Init /\ [][NextAccounts]_vars

\* registration and e-mail verification
NextVerify ==
    \/ Tick
    \/ \E w \in Workers, e \in Emails : RegisterLookup(w, e, "Str0ng!Pass", FALSE)
    \/ \E w \in Workers, d \in BOOLEAN : RegisterCreate(w, FALSE, d)
    \/ \E w \in Workers, i \in IssuedIds : GetUserProfile(w, i, FALSE)
    \/ \E w \in Workers, t \in TokenInputs : VerifyEmailLookup(w, t, FALSE)
    \/ \E w \in Workers : VerifyEmailUpdate(w, FALSE)
    \/ \E w \in Workers, e \in Emails : ResendLookup(w, e, FALSE)
    \/ \E w \in Workers, d \in BOOLEAN : ResendUpdate(w, FALSE, d)

SpecVerify == Init /\ [][NextVerify]_vars

\* registration of one user and password reset, for that user's email and another
NextReset ==
    \/ Tick
    \/ \E w \in Workers : RegisterLookup(w, "a@x", "Str0ng!Pass", FALSE)
    \/ \E w \in Workers, d \in BOOLEAN : RegisterCreate(w, FALSE, d)
    \/ \E w \in Workers, e \in Emails : ForgotLookup(w, e, FALSE)
    \/ \E w \in Workers, d \in BOOLEAN : ForgotUpdate(w, FALSE, d)
    \/ \E w \in Workers, t \in TokenInputs, p \in Passwords : ResetLookup(w, t, p, FALSE)
    \/ \E w \in Workers : ResetUpdate(w, FALSE)

SpecReset == Init /\ [][NextReset]_vars

\* every operation that writes a token column, on the record of one
\* registered user and of one user an administrator created
NextTokens ==
    \/ \E w \in Workers : RegisterLookup(w, "a@x", "Str0ng!Pass", FALSE)
    \/ \E w \in Workers, d \in BOOLEAN : RegisterCreate(w, FALSE, d)
    \/ \E w \in Workers : CreateUserLookup(w, "b@x", FALSE)
    \/ \E w \in Workers : CreateUserCreate(w, FALSE)
    \/ \E w \in Workers, t \in TokenInputs : VerifyEmailLookup(w, t, FALSE)
    \/ \E w \in Workers : VerifyEmailUpdate(w, FALSE)
    \/ \E w \in Workers, em \in Emails : ResendLookup(w, em, FALSE)
    \/ \E w \in Workers, d \in BOOLEAN : ResendUpdate(w, FALSE, d)
    \/ \E w \in Workers, em \in Emails : ForgotLookup(w, em, FALSE)
    \/ \E w \in Workers, d \in BOOLEAN : ForgotUpdate(w, FALSE, d)
    \/ \E w \in Workers, t \in TokenInputs : ResetLookup(w, t, "0ther!Pass", FALSE)
    \/ \E w \in Workers : ResetUpdate(w, FALSE)

SpecTokens == Init /\ [][NextTokens]_vars

\* the token pairs the service can have issued up to now
SessionPairs ==
    {GenerateTokenPair(i, "a@x", jwtcfg, t) : i \in IssuedIds, t \in 0..now}

\* the tokens a client holds and may send as a refresh token
SessionTokens ==
    {Malformed} \cup {p.AccessToken : p \in SessionPairs}
                \cup {p.RefreshToken : p \in SessionPairs}

\* one user's sessions: registration, token refresh and the deletion of the
\* user by an administrator
NextSession ==
    \/ Tick
    \/ \E w \in Workers : RegisterLookup(w, "a@x", "Str0ng!Pass", FALSE)
    \/ \E w \in Workers, d \in BOOLEAN : RegisterCreate(w, FALSE, d)
    \/ \E w \in Workers, tok \in SessionTokens : RefreshToken(w, tok)
    \/ \E w \in Workers, i \in IssuedIds : DeleteUserLookup(w, i, FALSE)
    \/ \E w \in Workers : DeleteUserDelete(w, FALSE)

SpecSession == Init /\ [][NextSession]_vars

----------------------------------------------------------------------------
(* The JWT manager and the authentication middleware, under every          *)
(* configuration of the two secrets and every token a client may present. *)

\* user ids a token is issued for
UserIds == {1, 2}

\* the pairs GenerateTokenPair has issued up to now
IssuedPairs ==
    {GenerateTokenPair(u, e, jwtcfg, t) : u \in UserIds, e \in Emails, t \in 0..now}

\* what a client can make of a token it holds: the token itself, the token
\* signed with a key of the client's own, the token with another algorithm
\* in its header (unsigned for "none")
Variants(tok) ==
    {tok, [tok EXCEPT !.key = "attacker"]}
    \cup {[tok EXCEPT !.alg = a, !.key = IF a = "none" THEN "" ELSE tok.key] :
            a \in Algorithms}

ClientTokens ==
    {Malformed}
    \cup UNION {Variants(p.AccessToken) \cup Variants(p.RefreshToken) : p \in IssuedPairs}

\* the empty string in place of a token
EmptyString == [Malformed EXCEPT !.alg = ""]

\* Authorization headers: none, another scheme alone or before an issued
\* access token, "Bearer " alone, "Bearer <token>"
Headers ==
    {[prefix |-> "", token |-> EmptyString],
     [prefix |-> "Basic ", token |-> EmptyString],
     [prefix |-> "Bearer ", token |-> EmptyString]}
    \cup {[prefix |-> "Basic ", token |-> p.AccessToken] : p \in IssuedPairs}
    \cup {[prefix |-> "Bearer ", token |-> tok] : tok \in ClientTokens}

Unauthorized(err, message, t) ==
    Verdict("AuthMiddleware", err, NoClaims, Malformed, t, 401, message, FALSE)

\* the middleware without the strings.HasPrefix check
AuthMiddlewareAnyScheme(h, cfg, t) ==
    LET v == ValidateAccessToken(h.token, cfg, t) IN
    IF h.prefix = "" /\ h.token = EmptyString
    THEN Unauthorized("none", "Authorization header required", t)
    ELSE IF h.token = EmptyString
    THEN Unauthorized("none", "Token cannot be empty", t)
    ELSE IF v.err = "ErrExpiredToken"
    THEN Unauthorized(v.err, "Token has expired", t)
    ELSE IF v.err \in {"ErrInvalidToken", "ErrInvalidClaims"}
    THEN Unauthorized(v.err, "Invalid token", t)
    ELSE IF v.err # "nil"
    THEN Unauthorized(v.err, "Token validation failed", t)
    ELSE Verdict("AuthMiddleware", "nil", v.claims, Malformed, t, 0, "", TRUE)

\* AuthMiddleware: the verdict on a request with Authorization header h at time t
AuthMiddleware(h, cfg, t) ==
    LET v == ValidateAccessToken(h.token, cfg, t) IN
    IF h.prefix = "" /\ h.token = EmptyString
    THEN Unauthorized("none", "Authorization header required", t)
    ELSE IF h.prefix # "Bearer "
    THEN Unauthorized("none", "Authorization header must start with 'Bearer '", t)
    ELSE IF h.token = EmptyString
    THEN Unauthorized("none", "Token cannot be empty", t)
    ELSE IF v.err = "ErrExpiredToken"
    THEN Unauthorized(v.err, "Token has expired", t)
    ELSE IF v.err \in {"ErrInvalidToken", "ErrInvalidClaims"}
    THEN Unauthorized(v.err, "Invalid token", t)
    ELSE IF v.err # "nil"
    THEN Unauthorized(v.err, "Token validation failed", t)
    ELSE Verdict("AuthMiddleware", "nil", v.claims, Malformed, t, 0, "", TRUE)

InitJWT ==
    /\ InitState
    /\ \E a \in EnvValues, r \in EnvValues : jwtcfg = Load(a, r)

ValidateAccess(tok) ==
    LET v == ValidateAccessToken(tok, jwtcfg, now) IN
    /\ presented' = tok
    /\ verdict' = Verdict("ValidateAccessToken", v.err, v.claims, Malformed, now, 0, "", FALSE)
    /\ UNCHANGED <<storeVars, now, jwtcfg, limiterVars, storeUp>>

ValidateRefresh(tok) ==
    LET v == ValidateRefreshToken(tok, jwtcfg, now) IN
    /\ presented' = tok
    /\ verdict' = Verdict("ValidateRefreshToken", v.err, v.claims, Malformed, now, 0, "", FALSE)
    /\ UNCHANGED <<storeVars, now, jwtcfg, limiterVars, storeUp>>

RefreshAccess(tok) ==
    LET v == RefreshAccessToken(tok, jwtcfg, now) IN
    /\ presented' = tok
    /\ verdict' = Verdict("RefreshAccessToken", v.err, NoClaims, v.token, now, 0, "", FALSE)
    /\ UNCHANGED <<storeVars, now, jwtcfg, limiterVars, storeUp>>

Authenticate(h) ==
    /\ presented' = h.token
    /\ verdict' = [AuthMiddleware(h, jwtcfg, now) EXCEPT !.prefix = h.prefix]
    /\ UNCHANGED <<storeVars, now, jwtcfg, limiterVars, storeUp>>

NextJWT ==
    \/ Tick
    \/ \E tok \in ClientTokens : ValidateAccess(tok)
    \/ \E tok \in ClientTokens : ValidateRefresh(tok)
    \/ \E tok \in ClientTokens : RefreshAccess(tok)
    \/ \E h \in Headers : Authenticate(h)

SpecJWT == InitJWT /\ [][NextJWT]_vars

----------------------------------------------------------------------------
(* The service over a store that may stop answering.  A statement is sent  *)
(* with the context of the request, which carries no deadline, so a step   *)
(* that executes a statement happens only when the store answers it.       *)

\* from now on the store answers no statement
Outage ==
    /\ storeUp
    /\ storeUp' = FALSE
    /\ UNCHANGED <<storeVars, now, jwtVars, limiterVars>>

\* the second statement of a call worker w has accepted, answered by the store
Proceeds(w) ==
    /\ storeUp
    /\ \/ \E d \in BOOLEAN : RegisterCreate(w, FALSE, d)
       \/ \E d \in BOOLEAN : ForgotUpdate(w, FALSE, d)

NextOutage ==
    \/ Outage
    \/ storeUp /\ \E w \in Workers : RegisterLookup(w, "a@x", "Str0ng!Pass", FALSE)
    \/ storeUp /\ \E w \in Workers, d \in BOOLEAN : RegisterCreate(w, FALSE, d)
    \/ storeUp /\ \E w \in Workers, em \in Emails : ForgotLookup(w, em, FALSE)
    \/ storeUp /\ \E w \in Workers, d \in BOOLEAN : ForgotUpdate(w, FALSE, d)

\* a goroutine whose statement the store answers goes on
SpecOutage ==
    /\ Init
    /\ [][NextOutage]_vars
    /\ \A w \in Workers : WF_vars(Proceeds(w))

----------------------------------------------------------------------------
(* Registration and e-mail verification over a store that may answer any   *)
(* statement with an error.                                                *)

\* tokens.ValidateToken on the token strings of the model: generated tokens
\* are 64 hexadecimal characters
ValidateToken(token) ==
    IF token = ShortToken THEN "invalid token length"
    ELSE IF token = MalformedToken THEN "invalid token format"
    ELSE "nil"

NextFaults ==
    \/ \E w \in Workers, em \in Emails, dbErr \in BOOLEAN :
          RegisterLookup(w, em, "Str0ng!Pass", dbErr)
    \/ \E w \in Workers, dbErr \in BOOLEAN, d \in BOOLEAN : RegisterCreate(w, dbErr, d)
    \/ \E w \in Workers, t \in TokenInputs \cup {MalformedToken}, dbErr \in BOOLEAN :
          VerifyEmailLookup(w, t, dbErr)
    \/ \E w \in Workers, dbErr \in BOOLEAN : VerifyEmailUpdate(w, dbErr)

SpecFaults == Init /\ [][NextFaults]_vars

----------------------------------------------------------------------------
(* The rate limiter: concurrent Allow calls and the cleanup goroutine over  *)
(* the requests map, under RateLimiter.mu.                                  *)

\* the timestamps of a list after windowStart (time.Time.After)
ValidRequests(list, windowStart) == SelectSeq(list, LAMBDA t : t > windowStart)

\* rl.requests[identifier]: the zero value for a missing key
RequestsOf(identifier) ==
    IF identifier \in DOMAIN requests THEN requests[identifier] ELSE <<>>

\* the check with > in place of >=
LimitExceededOver(list) == Len(list) > RateLimit

\* len(rl.requests[identifier]) >= rl.limit
LimitExceeded(list) == Len(list) >= RateLimit

\* RateLimitMiddleware: 429 when Allow denied, else the next handler
RateLimitMiddleware(identifier, t, allowed) ==
    IF allowed THEN Decision(identifier, t, TRUE, 0, TRUE)
    ELSE Decision(identifier, t, FALSE, 429, FALSE)

\* rl.mu.Lock() and time.Now()
AllowLock(w, identifier) ==
    /\ frame[w].pc = "idle"
    /\ calls < MaxReq
    /\ mu = "unlocked"
    /\ mu' = "locked"
    /\ frame' = [frame EXCEPT ![w] = Frame("clean", identifier, now)]
    /\ calls' = calls + 1
    /\ UNCHANGED <<users, nextId, nextToken, now, pc, req, loc, last, sendCalls,
                   resetRows, jwtVars, requests, sweeper, admitted, decision, storeUp>>

\* "Clean old requests": only for a key the map holds
AllowClean(w) ==
    LET id == frame[w].identifier IN
    /\ frame[w].pc = "clean"
    /\ requests' = IF id \in DOMAIN requests
                   THEN [requests EXCEPT ![id] = ValidRequests(@, frame[w].now - RateWindow)]
                   ELSE requests
    /\ frame' = [frame EXCEPT ![w].pc = "check"]
    /\ UNCHANGED <<storeVars, now, jwtVars, mu, sweeper, admitted, decision, storeUp>>

\* the limit check, the append, the deferred Unlock and the middleware's answer
AllowCheck(w) ==
    LET id == frame[w].identifier
        t == frame[w].now IN
    /\ frame[w].pc = "check"
    /\ IF LimitExceeded(RequestsOf(id))
       THEN /\ decision' = RateLimitMiddleware(id, t, FALSE)
            /\ UNCHANGED <<requests, admitted>>
       ELSE /\ requests' = (id :> Append(RequestsOf(id), t)) @@ requests
            /\ admitted' = [admitted EXCEPT ![id] = Append(@, t)]
            /\ decision' = RateLimitMiddleware(id, t, TRUE)
    /\ mu' = "unlocked"
    /\ frame' = [frame EXCEPT ![w] = NoFrame]
    /\ UNCHANGED <<storeVars, now, jwtVars, sweeper, storeUp>>

\* cleanup: the ticker fired; rl.mu.Lock(), time.Now() and the start of the
\* range loop over the map
CleanupLock ==
    /\ sweeper.pc = "wait"
    /\ mu = "unlocked"
    /\ mu' = "locked"
    /\ sweeper' = Sweep("sweep", now, {}, DOMAIN requests)
    /\ UNCHANGED <<storeVars, now, jwtVars, requests, frame, admitted, decision, storeUp>>

\* cleanup: one iteration of the range loop, in the order the runtime picks:
\* the list of one key pruned, or the key deleted when nothing is left
CleanupScan(id) ==
    LET valid == ValidRequests(requests[id], sweeper.now - RateWindow) IN
    /\ sweeper.pc = "sweep"
    /\ id \in sweeper.todo
    /\ requests' = IF valid = <<>>
                   THEN [i \in DOMAIN requests \ {id} |-> requests[i]]
                   ELSE [requests EXCEPT ![id] = valid]
    /\ sweeper' = [sweeper EXCEPT !.done = @ \cup {id}, !.todo = @ \ {id}]
    /\ UNCHANGED <<storeVars, now, jwtVars, mu, frame, admitted, decision, storeUp>>

\* cleanup: the loop is over; rl.mu.Unlock()
CleanupUnlock ==
    /\ sweeper.pc = "sweep"
    /\ sweeper.todo = {}
    /\ mu' = "unlocked"
    /\ sweeper' = Waiting
    /\ UNCHANGED <<storeVars, now, jwtVars, requests, frame, admitted, decision, storeUp>>

NextLimiter ==
    \/ Tick
    \/ \E w \in Workers, id \in Clients : AllowLock(w, id)
    \/ \E w \in Workers : AllowClean(w)
    \/ \E w \in Workers : AllowCheck(w)
    \/ CleanupLock
    \/ \E id \in Clients : CleanupScan(id)
    \/ CleanupUnlock

SpecLimiter == Init /\ [][NextLimiter]_vars

----------------------------------------------------------------------------
(* The role policies, behind the authentication middleware.  A request     *)
(* passes AuthMiddleware and the policy in one step: the chain makes one   *)
(* store call at most.                                                     *)

\* chk_users_role
Roles == {"admin", "moderator", "user"}

\* a policy: its middleware and the roles it lets through
Policy(op, allowed) == [op |-> op, allowed |-> allowed]

AdminMiddleware == Policy("RoleMiddleware", {"admin"})
ModeratorOrAdminMiddleware == Policy("MultiRoleMiddleware", {"moderator", "admin"})
SelfOrAdminMiddleware == Policy("OwnerOrRoleMiddleware", {"admin"})

Policies == {AdminMiddleware, ModeratorOrAdminMiddleware, SelfOrAdminMiddleware}

\* values of the path parameter "id": missing, not a number, and numbers
Params == {"", "abc", "1", "2"}

\* strconv.Atoi on the parameter values of the model
Atoi(s) ==
    IF s = "1" THEN [err |-> "nil", n |-> 1]
    ELSE IF s = "2" THEN [err |-> "nil", n |-> 2]
    ELSE [err |-> "invalid syntax", n |-> 0]

\* a response of a policy that ends the request
Rejected(op, status, message, t) ==
    Verdict(op, "none", NoClaims, Malformed, t, status, message, FALSE)

\* next(c), with the context the middlewares have filled
Passed(op, ctx, role, t) ==
    [Verdict(op, "nil", ctx, Malformed, t, 0, "", TRUE) EXCEPT !.role = role]

\* userRepo.GetByID and the decision on the stored role
StoredRoleCheck(policy, ctx, dbErr, t) ==
    LET user == GetByID(ctx.user_id) IN
    IF dbErr THEN Rejected(policy.op, 500, "Internal server error", t)
    ELSE IF user = ErrNoRows THEN Rejected(policy.op, 401, "User not found", t)
    ELSE IF users[user].role \notin policy.allowed
    THEN Rejected(policy.op, 403, "Insufficient permissions", t)
    ELSE Passed(policy.op, ctx, users[user].role, t)

\* RoleMiddleware and MultiRoleMiddleware
RoleMiddleware(policy, ctx, dbErr, t) ==
    IF ctx = NoClaims THEN Rejected(policy.op, 401, "User not authenticated", t)
    ELSE StoredRoleCheck(policy, ctx, dbErr, t)

\* the owner-or-role policy without the owner branch
OwnerOrRoleMiddlewareRoleOnly(policy, ctx, param, dbErr, t) ==
    IF ctx = NoClaims THEN Rejected(policy.op, 401, "User not authenticated", t)
    ELSE IF param = "" THEN Rejected(policy.op, 400, "Invalid request", t)
    ELSE IF Atoi(param).err # "nil" THEN Rejected(policy.op, 400, "Invalid resource ID", t)
    ELSE StoredRoleCheck(policy, ctx, dbErr, t)

OwnerOrRoleMiddleware(policy, ctx, param, dbErr, t) ==
    IF ctx = NoClaims THEN Rejected(policy.op, 401, "User not authenticated", t)
    ELSE IF param = "" THEN Rejected(policy.op, 400, "Invalid request", t)
    ELSE IF Atoi(param).err # "nil" THEN Rejected(policy.op, 400, "Invalid resource ID", t)
    ELSE IF ctx.user_id = Atoi(param).n THEN Passed(policy.op, ctx, "", t)
    ELSE StoredRoleCheck(policy, ctx, dbErr, t)

\* a request with "Bearer <tok>" and path parameter param on a route guarded
\* by AuthMiddleware and the policy
Authorize(policy, tok, param, dbErr) ==
    LET a == AuthMiddleware([prefix |-> "Bearer ", token |-> tok], jwtcfg, now)
        v == IF ~a.next THEN a
             ELSE IF policy.op = "OwnerOrRoleMiddleware"
             THEN OwnerOrRoleMiddleware(policy, a.claims, param, dbErr, now)
             ELSE RoleMiddleware(policy, a.claims, dbErr, now)
    IN
    /\ calls < MaxReq
    /\ calls' = calls + 1
    /\ presented' = tok
    /\ verdict' = [v EXCEPT !.prefix = "Bearer ", !.call = calls + 1, !.param = param]
    /\ UNCHANGED <<users, nextId, nextToken, now, pc, req, loc, last, sendCalls,
                   resetRows, jwtcfg, limiterVars, storeUp>>

\* the database operator gives a user another role: no statement of
\* users.sql writes the role column after the INSERT
SetRole(id, role) ==
    /\ id \in DOMAIN users
    /\ users[id].role # role
    /\ users' = [users EXCEPT ![id].role = role]
    /\ UNCHANGED <<nextId, nextToken, now, pc, req, loc, last, calls, sendCalls,
                   resetRows, jwtVars, limiterVars, storeUp>>

\* the access tokens clients hold, and a string that is no token
AccessTokens == {Malformed} \cup {p.AccessToken : p \in SessionPairs}

\* guarded routes while users register, are deleted and change role, within
\* the lifetime of the access tokens
NextRoles ==
    \/ \E w \in Workers : RegisterLookup(w, "a@x", "Str0ng!Pass", FALSE)
    \/ \E w \in Workers, d \in BOOLEAN : RegisterCreate(w, FALSE, d)
    \/ \E w \in Workers, i \in IssuedIds : DeleteUserLookup(w, i, FALSE)
    \/ \E w \in Workers : DeleteUserDelete(w, FALSE)
    \/ \E i \in IssuedIds, r \in Roles : SetRole(i, r)
    \/ \E p \in Policies, tok \in AccessTokens, s \in Params : Authorize(p, tok, s, FALSE)

SpecRoles == Init /\ [][NextRoles]_vars

----------------------------------------------------------------------------
(* Steps of a behaviour, for the properties below *)

\* this step is the return of a call of op: the call was accepted and
\* answered in one step, or a worker came back from its second statement
Returns(op) ==
    /\ last'.req.op = op
    /\ \/ calls' = calls + 1 /\ pc' = pc
       \/ \E w \in Workers : pc[w] # "idle" /\ pc'[w] = "idle"

\* this step accepts a call of op which goes on to its second statement
GoesOn(w, op) == pc[w] = "idle" /\ pc'[w] # "idle" /\ req'[w].op = op

\* this step accepts a call of op
Accepts(op) ==
    /\ calls' = calls + 1
    /\ \/ pc' = pc /\ last'.req.op = op
       \/ \E w \in Workers : GoesOn(w, op)

\* the request of the call this step accepts
Accepted ==
    IF pc' = pc THEN last'.req
    ELSE req'[CHOOSE w \in Workers : pc[w] = "idle" /\ pc'[w] # "idle"]

\* the rows that carry reset token t
RowsOfResetToken(t) ==
    {i \in DOMAIN users : users[i].password_reset_token # NULL
                           /\ users[i].password_reset_token = t}

----------------------------------------------------------------------------
(* Password reset *)

\* C1: ResetPassword is single-use.  A ResetPassword call with a reset token
\* that is stored and not expired is not refused, and its UPDATE, when the
\* token is still stored, replaces the password hash with the hash of the new
\* password, clears the reset token and its expiry, and the call returns
\* success.  Every ResetPassword call accepted after a reset with the same
\* token was applied returns ErrInvalidPasswordResetToken and leaves the
\* table, so the password hash, unchanged.
C1_ResetStep ==
    /\ (/\ Accepts("ResetPassword")
        /\ RowsOfResetToken(Accepted.token) # {}
        /\ \A i \in RowsOfResetToken(Accepted.token) :
              ~Expired(users[i].password_reset_expires_at, now))
       => \E w \in Workers : GoesOn(w, "ResetPassword")
    /\ \A w \in Workers :
         (pc[w] = "Reset:update" /\ pc'[w] = "idle")
         => /\ \A i \in RowsOfResetToken(req[w].token) :
                 /\ users'[i].password_hash = hashPassword(req[w].password)
                 /\ users'[i].password_reset_token = NULL
                 /\ users'[i].password_reset_expires_at = NULL
            /\ (RowsOfResetToken(req[w].token) # {})
               => (last'.resp.err = "nil" /\ last'.resp.success)
    /\ (Accepts("ResetPassword") /\ Accepted.token \in DOMAIN resetRows)
       => /\ Returns("ResetPassword")
          /\ last'.resp.err = "ErrInvalidPasswordResetToken"
          /\ ~last'.resp.success
          /\ users' = users

C2_ResetWrite ==
    /\ \A i \in DOMAIN users \cap DOMAIN users' :
         /\ users'[i].password_hash # users[i].password_hash
            => /\ users[i].password_reset_token # NULL
               /\ users'[i].password_reset_token = NULL
               /\ users'[i].password_reset_expires_at = NULL
         /\ (users[i].password_reset_token # NULL /\ users'[i].password_reset_token = NULL)
            => \E w \in Workers :
                 /\ pc[w] = "Reset:update" /\ pc'[w] = "idle"
                 /\ req[w].token = users[i].password_reset_token
                 /\ users'[i].password_hash = hashPassword(req[w].password)
    /\ \A t \in DOMAIN resetRows' : resetRows'[t] <= 1

\* C2: a password reset is applied at most once per token, hash and token in one write;
\* every step of a behaviour satisfies C2_ResetWrite.
C2_ResetAppliedOnce == [][C2_ResetWrite]_vars

\* two calls with the same token both ran their UPDATE: the first changed
\* the password, the second returned without its password being stored
C2_Witness ==
    /\ last.req.op = "ResetPassword"
    /\ last.resp.err = "nil"
    /\ last.req.token \in DOMAIN resetRows
    /\ resetRows[last.req.token] = 1
    /\ \A i \in DOMAIN users : users[i].password_hash # hashPassword(last.req.password)

\* C8: ForgotPassword for an email that no row carries returns success in
\* the same step, with the users table unchanged (no row created, no column
\* of any row changed), no token generated and no e-mail sent.
C8_ForgotStep ==
    (/\ Accepts("ForgotPassword")
     /\ \A i \in DOMAIN users : users[i].email # Accepted.email)
    => /\ Returns("ForgotPassword")
       /\ last'.resp.err = "nil"
       /\ last'.resp.success
       /\ users' = users
       /\ nextId' = nextId
       /\ nextToken' = nextToken
       /\ sendCalls' = sendCalls

\* C8: ForgotPassword for an unknown email returns success and changes nothing;
\* every step of a behaviour satisfies C8_ForgotStep.
C8_ForgotUnknownEmail == [][C8_ForgotStep]_vars

\* ForgotPassword answered success for an email without a row, next to a
\* row of another email
C8_Witness ==
    /\ last.req.op = "ForgotPassword"
    /\ last.resp.success
    /\ users # <<>>
    /\ \A i \in DOMAIN users : users[i].email # last.req.email

----------------------------------------------------------------------------
(* Registration and login *)

\* C3: a Register call for an email that a row already carries returns
\* ErrUserAlreadyExists in the same step and creates no record: the users
\* table and the id sequence are unchanged, so the number of records with
\* that email stays what it was.
C3_RegisterStep ==
    (/\ Accepts("Register")
     /\ \E i \in DOMAIN users : users[i].email = Accepted.email)
    => /\ Returns("Register")
       /\ last'.resp.err = "ErrUserAlreadyExists"
       /\ users' = users
       /\ nextId' = nextId
       /\ Cardinality({i \in DOMAIN users' : users'[i].email = Accepted.email})
            = Cardinality({i \in DOMAIN users : users[i].email = Accepted.email})

\* C3: Register for an email already registered returns ErrUserAlreadyExists and adds no record;
\* every step of a behaviour satisfies C3_RegisterStep.
C3_RegisterTwice == [][C3_RegisterStep]_vars

\* a Register call was refused for the email of a registered user
C3_Witness ==
    /\ last.req.op = "Register"
    /\ last.resp.err = "ErrUserAlreadyExists"
    /\ \E i \in DOMAIN users : /\ users[i].email = last.req.email
                                /\ users[i].password_hash # EmptyHash
                                /\ users[i].email_verification_token # NULL
    /\ Cardinality({i \in DOMAIN users : users[i].email = last.req.email}) = 1

\* the rows with the email of the Login call that returns in this step
LoginRows == {i \in DOMAIN users : users[i].email = last'.req.email}

\* C4: a Login call for an email without a row, for a row whose stored hash
\* is not the hash of the password given, and for a row whose stored hash is
\* empty, returns one and the same response: ErrInvalidCredentials, with no
\* user and no token pair.
C4_LoginStep ==
    Returns("Login")
    => /\ (LoginRows = {})
          => last'.resp = Failure("ErrInvalidCredentials", "")
       /\ (\E i \in LoginRows : users[i].password_hash # hashPassword(last'.req.password))
          => last'.resp = Failure("ErrInvalidCredentials", "")
       /\ (\E i \in LoginRows : users[i].password_hash = EmptyHash)
          => last'.resp = Failure("ErrInvalidCredentials", "")
       /\ (last'.resp.err # "nil") => (last'.resp.tokens = NoTokens)

\* C4: the failure causes of Login give one and the same response;
\* every step of a behaviour satisfies C4_LoginStep.
C4_LoginFailuresAlike == [][C4_LoginStep]_vars

\* a Login call against a user whose stored hash is empty was refused
C4_Witness ==
    /\ last.req.op = "Login"
    /\ last.resp = Failure("ErrInvalidCredentials", "")
    /\ \E i \in DOMAIN users : /\ users[i].email = last.req.email
                                /\ users[i].password_hash = EmptyHash

----------------------------------------------------------------------------
(* E-mail verification *)

\* the rows that carry verification token t
RowsOfVerificationToken(t) ==
    {i \in DOMAIN users : users[i].email_verification_token # NULL
                           /\ users[i].email_verification_token = t}

\* C5: a VerifyEmail call with a token stored on an unverified user whose
\* expiry instant is in the past returns ErrInvalidVerificationToken in the
\* same step and changes nothing: the table is unchanged, so the flag stays
\* false and the token and its expiry stay on the row.
C5_ExpiredStep ==
    (/\ Accepts("VerifyEmail")
     /\ \E i \in RowsOfVerificationToken(Accepted.token) :
           /\ ~users[i].email_verified
           /\ users[i].email_verification_expires_at < now)
    => /\ Returns("VerifyEmail")
       /\ last'.resp.err = "ErrInvalidVerificationToken"
       /\ ~last'.resp.success
       /\ users' = users

\* C5: VerifyEmail with an expired token returns ErrInvalidVerificationToken and changes nothing;
\* every step of a behaviour satisfies C5_ExpiredStep.
C5_VerifyExpired == [][C5_ExpiredStep]_vars

\* a VerifyEmail call was refused for an expired token, which is still on
\* the row of the unverified user
C5_Witness ==
    /\ last.req.op = "VerifyEmail"
    /\ last.resp.err = "ErrInvalidVerificationToken"
    /\ \E i \in RowsOfVerificationToken(last.req.token) :
          /\ ~users[i].email_verified
          /\ users[i].email_verification_expires_at < now

\* C6: a VerifyEmail call with a token stored on a user whose email is
\* already verified returns ErrEmailAlreadyVerified in the same step and
\* leaves the table unchanged.
C6_VerifiedStep ==
    (/\ Accepts("VerifyEmail")
     /\ \E i \in RowsOfVerificationToken(Accepted.token) : users[i].email_verified)
    => /\ Returns("VerifyEmail")
       /\ last'.resp.err = "ErrEmailAlreadyVerified"
       /\ ~last'.resp.success
       /\ users' = users

\* C6: VerifyEmail with the token of a verified user returns ErrEmailAlreadyVerified and changes nothing;
\* every step of a behaviour satisfies C6_VerifiedStep.
C6_VerifyAlreadyVerified == [][C6_VerifiedStep]_vars

\* a VerifyEmail call was answered ErrEmailAlreadyVerified for a token that
\* a verified user carries
C6_Witness ==
    /\ last.req.op = "VerifyEmail"
    /\ last.resp.err = "ErrEmailAlreadyVerified"
    /\ \E i \in RowsOfVerificationToken(last.req.token) : users[i].email_verified

\* C7: a Register call that creates a user answers with an access and a
\* refresh token that validate and with email_verified false.  A VerifyEmail
\* call with a token stored on an unverified user and not expired is not
\* refused, and its UPDATE, when the token is still stored, sets
\* email_verified and clears the token and its expiry in that one step, and
\* the call returns success.  A verified user stays verified, and every
\* GetUserProfile call reports the email_verified column of the user's row:
\* so every GetUserProfile after the verification reports true.
C7_VerifyStep ==
    /\ \A w \in Workers :
         (pc[w] = "Register:create" /\ pc'[w] = "idle" /\ last'.resp.err = "nil")
         => /\ ValidateAccessToken(last'.resp.tokens.AccessToken, jwtcfg, now).err = "nil"
            /\ ValidateRefreshToken(last'.resp.tokens.RefreshToken, jwtcfg, now).err = "nil"
            /\ ~last'.resp.user.email_verified
            /\ last'.resp.user.id \in DOMAIN users' \ DOMAIN users
            /\ ~users'[last'.resp.user.id].email_verified
            /\ users'[last'.resp.user.id].email_verification_token # NULL
    /\ (/\ Accepts("VerifyEmail")
        /\ RowsOfVerificationToken(Accepted.token) # {}
        /\ \A i \in RowsOfVerificationToken(Accepted.token) :
              /\ ~users[i].email_verified
              /\ ~Expired(users[i].email_verification_expires_at, now))
       => \E w \in Workers : GoesOn(w, "VerifyEmail")
    /\ \A w \in Workers :
         (pc[w] = "VerifyEmail:update" /\ pc'[w] = "idle")
         => /\ \A i \in RowsOfVerificationToken(req[w].token) :
                 /\ users'[i].email_verified
                 /\ users'[i].email_verification_token = NULL
                 /\ users'[i].email_verification_expires_at = NULL
            /\ (RowsOfVerificationToken(req[w].token) # {})
               => (last'.resp.err = "nil" /\ last'.resp.success)
    /\ \A i \in DOMAIN users \cap DOMAIN users' :
         users[i].email_verified => users'[i].email_verified
    /\ (Returns("GetUserProfile") /\ last'.req.id \in DOMAIN users)
       => /\ last'.resp.err = "nil"
          /\ last'.resp.user.id = last'.req.id
          /\ last'.resp.user.email_verified = users[last'.req.id].email_verified

\* C7: after Register and VerifyEmail every GetUserProfile reports email_verified true;
\* every step of a behaviour satisfies C7_VerifyStep.
C7_RegisterVerifyProfile == [][C7_VerifyStep]_vars

\* GetUserProfile reported email_verified true for a user whose token and
\* expiry were cleared by the verification
C7_Witness ==
    /\ last.req.op = "GetUserProfile"
    /\ last.resp.err = "nil"
    /\ last.resp.user.email_verified
    /\ users[last.req.id].email_verified
    /\ users[last.req.id].email_verification_token = NULL
    /\ users[last.req.id].email_verification_expires_at = NULL

----------------------------------------------------------------------------
(* JWT manager and authentication middleware *)

\* the access tokens and the refresh tokens issued up to now
IssuedAccess == {p.AccessToken : p \in IssuedPairs}
IssuedRefresh == {p.RefreshToken : p \in IssuedPairs}

\* C9: for every user id and email, the access token of GenerateTokenPair,
\* validated by ValidateAccessToken at the time of issue, yields claims with
\* that user id and email; the same access token is refused by
\* ValidateRefreshToken, a refresh token is refused by ValidateAccessToken,
\* and RefreshAccessToken mints no access token from an access token.
C9_AccessAndRefreshApart ==
    /\ (verdict.op = "ValidateAccessToken" /\ presented \in IssuedAccess
                                           /\ verdict.at = presented.iat)
       => /\ verdict.err = "nil"
          /\ verdict.claims = [user_id |-> presented.user_id, email |-> presented.email]
    /\ (verdict.op = "ValidateRefreshToken" /\ presented \in IssuedAccess)
       => verdict.err # "nil"
    /\ (verdict.op = "ValidateAccessToken" /\ presented \in IssuedRefresh)
       => verdict.err # "nil"
    /\ (verdict.op = "RefreshAccessToken" /\ presented \in IssuedAccess)
       => (verdict.err # "nil" /\ verdict.minted = Malformed)

\* C10: an access token signed with the access secret and validated after
\* its expiry instant is answered ErrExpiredToken, by ValidateAccessToken and
\* inside the middleware, and the middleware then answers 401 with the
\* message "Token has expired" and does not call the next handler.
C10_ExpiredIsExpired ==
    (/\ \/ verdict.op = "ValidateAccessToken"
        \/ verdict.op = "AuthMiddleware" /\ verdict.prefix = "Bearer "
     /\ presented \in IssuedAccess
     /\ verdict.at > presented.exp)
    => /\ verdict.err = "ErrExpiredToken"
       /\ verdict.op = "AuthMiddleware"
          => /\ verdict.status = 401
             /\ verdict.message = "Token has expired"
             /\ ~verdict.next

\* the middleware refused an issued access token after its expiry instant
C10_Witness ==
    /\ verdict.op = "AuthMiddleware"
    /\ presented \in IssuedAccess
    /\ verdict.at > presented.exp
    /\ verdict.message = "Token has expired"

----------------------------------------------------------------------------
(* Token refresh *)

\* the token presented in this step is a refresh token of the service that
\* is not expired
ValidRefreshPresented ==
    /\ presented' \in {p.RefreshToken : p \in SessionPairs}
    /\ now < presented'.exp

\* C11: a RefreshToken call with a valid, unexpired refresh token returns a
\* new access token with the user id and email of the refresh token and no
\* new refresh token, whatever the users table holds (the call neither reads
\* nor writes it): so the same refresh token succeeds at every presentation
\* until its expiry, also after the user was deleted.
C11_RefreshStep ==
    (Returns("RefreshToken") /\ ValidRefreshPresented)
    => /\ last'.resp.err = "nil"
       /\ last'.resp.tokens.AccessToken
            = generateToken(presented'.user_id, presented'.email,
                            jwtcfg.AccessSecret, AccessExpiresIn, now)
       /\ ValidateAccessToken(last'.resp.tokens.AccessToken, jwtcfg, now).claims
            = [user_id |-> presented'.user_id, email |-> presented'.email]
       /\ last'.resp.tokens.RefreshToken = Malformed
       /\ users' = users

\* C11: a valid refresh token is accepted at every presentation and not rotated;
\* every step of a behaviour satisfies C11_RefreshStep.
C11_RefreshNotRotated == [][C11_RefreshStep]_vars

\* a refresh token issued earlier was accepted after its user was deleted
C11_Witness ==
    /\ last.req.op = "RefreshToken"
    /\ last.resp.err = "nil"
    /\ presented \in {p.RefreshToken : p \in SessionPairs}
    /\ presented.iat < now
    /\ presented.user_id \notin DOMAIN users
    /\ last.resp.tokens.AccessToken.user_id = presented.user_id

----------------------------------------------------------------------------
(* Registration with a failing e-mail send *)

\* C12: a Register call computes the expiry of the verification token as
\* 24h from now, and when the send of the verification e-mail fails the call
\* still returns success: the record it created (role user, unverified, with
\* the verification token and that expiry) is in the table, the response
\* carries a token pair that validates, and sendEmail was called exactly
\* once in the call.
C12_RegisterStep ==
    /\ \A w \in Workers :
         GoesOn(w, "Register")
         => /\ loc'[w].expiresAt = now + TokenExpiry
            /\ loc'[w].token # NULL
    /\ \A w \in Workers :
         (pc[w] = "Register:create" /\ pc'[w] = "idle" /\ last'.sent = "failed")
         => /\ last'.resp.err = "nil"
            /\ last'.resp.success
            /\ nextId \in DOMAIN users' \ DOMAIN users
            /\ last'.resp.user.id = nextId
            /\ users'[nextId].email = req[w].email
            /\ users'[nextId].role = "user"
            /\ ~users'[nextId].email_verified
            /\ users'[nextId].email_verification_token = loc[w].token
            /\ users'[nextId].email_verification_expires_at = loc[w].expiresAt
            /\ ValidateAccessToken(last'.resp.tokens.AccessToken, jwtcfg, now).err = "nil"
            /\ ValidateRefreshToken(last'.resp.tokens.RefreshToken, jwtcfg, now).err = "nil"
            /\ sendCalls' = sendCalls + 1

\* C12: a failed send of the verification e-mail does not fail Register;
\* every step of a behaviour satisfies C12_RegisterStep.
C12_RegisterSoftFail == [][C12_RegisterStep]_vars

\* Register returned success although the send of its e-mail failed, and
\* the record is in the table
C12_Witness ==
    /\ last.req.op = "Register"
    /\ last.sent = "failed"
    /\ last.resp.err = "nil"
    /\ last.resp.user.id \in DOMAIN users
    /\ users[last.resp.user.id].email_verification_token # NULL
    /\ sendCalls = 1

----------------------------------------------------------------------------
(* Authentication middleware *)

\* C13: the middleware calls the next handler only for a header that starts
\* with "Bearer " and carries a non-empty token which ValidateAccessToken
\* accepts at that time (and for every such header), and then the request
\* context holds the user id and email of the token.  A missing header,
\* another prefix or an empty token is answered 401 without a call of the
\* validator, and every request that is not passed on is answered 401.
C13_OnlyAuthenticated ==
    verdict.op = "AuthMiddleware"
    => /\ verdict.next
          <=> /\ verdict.prefix = "Bearer "
              /\ presented # EmptyString
              /\ ValidateAccessToken(presented, jwtcfg, verdict.at).err = "nil"
       /\ verdict.next
          => verdict.claims = [user_id |-> presented.user_id, email |-> presented.email]
       /\ (verdict.prefix # "Bearer " \/ presented = EmptyString)
          => (verdict.err = "none" /\ verdict.status = 401 /\ ~verdict.next)
       /\ ~verdict.next => verdict.status = 401

\* the middleware passed a request with an issued access token on, with the
\* token's user in the context
C13_Witness ==
    /\ verdict.op = "AuthMiddleware"
    /\ verdict.next
    /\ verdict.prefix = "Bearer "
    /\ presented \in IssuedAccess
    /\ verdict.claims = [user_id |-> presented.user_id, email |-> presented.email]

----------------------------------------------------------------------------
(* Rate limiting *)

\* the requests of a client that Allow admitted with a timestamp in the
\* window that precedes instant t
AdmittedInWindow(id, t) ==
    {i \in 1..Len(admitted[id]) : admitted[id][i] > t - RateWindow}

\* the goroutines inside the critical section
Holders ==
    {w \in Workers : frame[w].pc # "idle"}
    \cup (IF sweeper.pc = "sweep" THEN {0} ELSE {})

\* this step is the decision of an Allow call of worker w
Decides(w) == frame[w].pc = "check" /\ frame'[w].pc = "idle"

\* C14: at every instant and for every client address, the requests Allow
\* admitted with a timestamp (the time.Now() Allow read) inside the preceding
\* window are at most RateLimit.  An Allow call that finds RateLimit admitted
\* requests of its address in its window is denied with 429, does not reach
\* the handler and is recorded nowhere; any other call is admitted and
\* recorded with its timestamp.  At most one goroutine (an Allow call or the
\* sweep) is in the critical section, the lock is held exactly then, and the
\* map changes only in steps of the lock holder.
C14_Step ==
    /\ \A id \in Clients : Cardinality(AdmittedInWindow(id, now))' <= RateLimit
    /\ Cardinality(Holders') <= 1
    /\ (mu' = "locked") <=> (Holders' # {})
    /\ requests' # requests => mu = "locked"
    /\ \A w \in Workers :
          Decides(w)
          => LET id == frame[w].identifier
                 t == frame[w].now
             IN  IF Cardinality(AdmittedInWindow(id, t)) >= RateLimit
                 THEN /\ decision' = Decision(id, t, FALSE, 429, FALSE)
                      /\ requests' = requests
                      /\ admitted' = admitted
                 ELSE /\ decision' = Decision(id, t, TRUE, 0, TRUE)
                      /\ admitted' = [admitted EXCEPT ![id] = Append(@, t)]
                      /\ id \in DOMAIN requests'
                      /\ requests'[id] = Append(RequestsOf(id), t)

\* C14: the rate limit holds; every step of a behaviour satisfies C14_Step.
C14_RateLimited == [][C14_Step]_vars

\* a client was denied at the limit while the other worker's call is in the
\* critical section, one window after the first admissions
C14_Witness ==
    /\ ~decision.allowed
    /\ decision.status = 429
    /\ decision.at > 0
    /\ Len(admitted[decision.identifier]) >= RateLimit
    /\ \E w \in Workers : frame[w].pc = "clean"

----------------------------------------------------------------------------
(* Role policies *)

\* this step is the answer to a request on a guarded route
Authorizes == calls' = calls + 1 /\ verdict'.call = calls + 1

\* the policy of a middleware
PolicyOf(op) == CHOOSE p \in Policies : p.op = op

\* the user of the presented token has a row whose role the policy allows
StoredRoleAllowed(op) ==
    /\ presented'.user_id \in DOMAIN users
    /\ users[presented'.user_id].role \in PolicyOf(op).allowed

\* C15: a request that passed authentication is decided by each role policy
\* on the users table as it is at that step: it reaches the handler only if
\* the row of the token's user exists, and under the single-role and the
\* multi-role policy exactly when that row's role is an allowed one; the
\* role put into the context is the stored one.
C15_Step ==
    (Authorizes /\ verdict'.op # "AuthMiddleware")
    => /\ verdict'.next => presented'.user_id \in DOMAIN users
       /\ verdict'.op \in {"RoleMiddleware", "MultiRoleMiddleware"}
          => (verdict'.next <=> StoredRoleAllowed(verdict'.op))
       /\ (verdict'.next /\ verdict'.role # "")
          => verdict'.role = users[presented'.user_id].role

\* C15: role policies decide on the store; every step of a behaviour
\* satisfies C15_Step.
C15_StoredRoleDecides == [][C15_Step]_vars

\* C16 as stated: under the owner-or-role policy an authenticated request
\* whose path parameter is an integer reaches the handler exactly when the
\* token's user id equals it or the user's stored role is an allowed one,
\* and is answered 403 Forbidden otherwise; a missing or non-integer
\* parameter is answered 400 whatever the role.
C16_StepAsStated ==
    (Authorizes /\ verdict'.op = "OwnerOrRoleMiddleware")
    => IF verdict'.param = "" \/ Atoi(verdict'.param).err # "nil"
       THEN verdict'.status = 400 /\ ~verdict'.next
       ELSE /\ verdict'.next <=> \/ presented'.user_id = Atoi(verdict'.param).n
                                 \/ StoredRoleAllowed("OwnerOrRoleMiddleware")
            /\ ~verdict'.next => verdict'.status = 403

\* C16 as stated; every step of a behaviour satisfies C16_StepAsStated.
C16_OwnerOrRoleForbidden == [][C16_StepAsStated]_vars

\* C16: under the owner-or-role policy an authenticated request whose path
\* parameter is an integer reaches the handler exactly when the token's user
\* id equals it or the user's stored role is an allowed one; otherwise it is
\* answered 403 Forbidden when the user's row exists and 401 "User not
\* found" when it does not.  A missing or non-integer parameter is answered
\* 400 whatever the role.
C16_Step ==
    (Authorizes /\ verdict'.op = "OwnerOrRoleMiddleware")
    => IF verdict'.param = "" \/ Atoi(verdict'.param).err # "nil"
       THEN verdict'.status = 400 /\ ~verdict'.next
       ELSE /\ verdict'.next <=> \/ presented'.user_id = Atoi(verdict'.param).n
                                 \/ StoredRoleAllowed("OwnerOrRoleMiddleware")
            /\ ~verdict'.next
               => IF presented'.user_id \in DOMAIN users
                  THEN verdict'.status = 403
                  ELSE verdict'.status = 401 /\ verdict'.message = "User not found"

\* C16: the owner-or-role policy; every step of a behaviour satisfies C16_Step.
C16_OwnerOrRole == [][C16_Step]_vars

\* a user whose row was deleted asked for another user's resource and was
\* answered 401
C16_Witness ==
    /\ verdict.op = "OwnerOrRoleMiddleware"
    /\ verdict.param \in {"1", "2"}
    /\ presented.user_id # Atoi(verdict.param).n
    /\ presented.user_id \notin DOMAIN users
    /\ verdict.status = 401
    /\ verdict.message = "User not found"

----------------------------------------------------------------------------
(* Termination *)

\* C17: every call the service has accepted returns, also when the store
\* stops answering: no worker stays inside a call forever.
C17_EveryCallReturns ==
    \A w \in Workers : (pc[w] # "idle") ~> (pc[w] = "idle")

----------------------------------------------------------------------------
(* Token columns *)

\* C18: in every reachable state every row has its verification token and
\* the expiry of it both NULL or both set, and its password reset token and
\* the expiry of it both NULL or both set, under every interleaving of
\* Register, ResendVerificationEmail, VerifyEmail, ForgotPassword,
\* ResetPassword and the administrator's CreateUser.
C18_TokensPaired ==
    \A i \in DOMAIN users :
        /\ (users[i].email_verification_token = NULL)
           <=> (users[i].email_verification_expires_at = NULL)
        /\ (users[i].password_reset_token = NULL)
           <=> (users[i].password_reset_expires_at = NULL)

\* a verified user, whose verification columns VerifyEmail cleared, holds a
\* password reset token with its expiry
C18_Witness ==
    \E i \in DOMAIN users :
        /\ users[i].email_verified
        /\ users[i].email_verification_token = NULL
        /\ users[i].email_verification_expires_at = NULL
        /\ users[i].password_reset_token # NULL
        /\ users[i].password_reset_expires_at # NULL

----------------------------------------------------------------------------
(* Errors of the store and malformed tokens *)

\* C19: a VerifyEmail call whose token fails the format check of
\* tokens.ValidateToken is rejected by the call itself, with an answer that
\* does not come from the store: it neither crashes nor reports the error of
\* a store query.
C19_Step ==
    (Returns("VerifyEmail") /\ ValidateToken(last'.req.token) # "nil")
    => /\ last'.resp.err # "nil"
       /\ last'.resp.err # "panic"
       /\ last'.resp.err # "verification failed"

\* C19: the format check comes first; every step of a behaviour satisfies
\* C19_Step.
C19_FormatCheckedFirst == [][C19_Step]_vars

\* C20: a Register call goes on from the lookup by email to the INSERT only
\* when the lookup answered sql.ErrNoRows, not when it failed otherwise.
C20_Step ==
    \A w \in Workers :
        GoesOn(w, "Register") => loc'[w].err = "sql.ErrNoRows"

\* C20: a failed lookup stops Register; every step of a behaviour satisfies
\* C20_Step.
C20_LookupErrorStops == [][C20_Step]_vars

----------------------------------------------------------------------------
(* The sweep and the request path *)

\* C21: the sweep does not hold the lock from one bucket to the next: when
\* it has scanned a bucket and has another to scan, the lock is free, so that
\* an Allow call waiting in Lock() can take it.
C21_SweepYields ==
    (sweeper.pc = "sweep" /\ sweeper.done # {} /\ sweeper.todo # {})
    => mu = "unlocked"

----------------------------------------------------------------------------
(* One outstanding verification token *)

\* this step is the store write of a ResendVerificationEmail call of worker w
ResendWrites(w) == pc[w] = "Resend:update" /\ pc'[w] = "idle"

\* C22: a ResendVerificationEmail call that finds its user unverified
\* generates a token no row holds and an expiry 24h after that moment, and
\* its write to a still unverified user replaces the stored token and expiry
\* by them.  A VerifyEmail call with a generated token that no row holds any
\* more fails with ErrInvalidVerificationToken and writes nothing, and a write
\* of VerifyEmail verifies a row only through the token the row holds then.
\* A ResendVerificationEmail call for a verified user returns
\* ErrEmailAlreadyVerified, writes nothing and sends nothing.
C22_Step ==
    /\ \A w \in Workers :
          GoesOn(w, "ResendVerificationEmail")
          => /\ RowsOfVerificationToken(loc'[w].token) = {}
             /\ loc'[w].token \notin 1..(nextToken - 1)
             /\ loc'[w].expiresAt = now + TokenExpiry
    /\ \A w \in Workers :
          (/\ ResendWrites(w)
           /\ loc[w].id \in DOMAIN users
           /\ ~users[loc[w].id].email_verified)
          => /\ users'[loc[w].id].email_verification_token = loc[w].token
             /\ users'[loc[w].id].email_verification_expires_at = loc[w].expiresAt
             /\ \A i \in DOMAIN users' :
                   users'[i].email_verification_token = loc[w].token => i = loc[w].id
    /\ (/\ Accepts("VerifyEmail")
        /\ Accepted.token \in 1..(nextToken - 1)
        /\ RowsOfVerificationToken(Accepted.token) = {})
       => /\ Returns("VerifyEmail")
          /\ last'.resp.err = "ErrInvalidVerificationToken"
          /\ users' = users
    /\ \A i \in DOMAIN users :
          (~users[i].email_verified /\ i \in DOMAIN users' /\ users'[i].email_verified)
          => /\ Returns("VerifyEmail")
             /\ users[i].email_verification_token = last'.req.token
    /\ (/\ Accepts("ResendVerificationEmail")
        /\ GetByEmail(Accepted.email) # ErrNoRows
        /\ users[GetByEmail(Accepted.email)].email_verified)
       => /\ Returns("ResendVerificationEmail")
          /\ last'.resp.err = "ErrEmailAlreadyVerified"
          /\ users' = users
          /\ sendCalls' = sendCalls

----------------------------------------------------------------------------
(* Signing algorithm *)

\* C23: a token whose header names an algorithm other than HS256, the one
\* generateToken signs with, is answered ErrInvalidToken by both validators
\* and yields no claims, whatever key its signature was computed with; the
\* middleware does not pass it on.
C23_AlgorithmPinned ==
    (/\ verdict.op \in {"ValidateAccessToken", "ValidateRefreshToken", "AuthMiddleware"}
     /\ verdict.op = "AuthMiddleware" => verdict.prefix = "Bearer "
     /\ presented # EmptyString
     /\ presented.alg # "HS256")
    => /\ verdict.err = "ErrInvalidToken"
       /\ verdict.claims = NoClaims
       /\ ~verdict.next

----------------------------------------------------------------------------
(* Expiry of the password reset token *)

\* C24: ForgotPassword stores its token with the expiry 24h after the call,
\* and a ResetPassword call made with a stored token after that instant
\* returns ErrInvalidPasswordResetToken and leaves the table unchanged: the
\* password hash, the reset token and its expiry stay as they were.
C24_Step ==
    /\ \A w \in Workers :
          GoesOn(w, "ForgotPassword") => loc'[w].expiresAt = now + TokenExpiry
    /\ \A w \in Workers :
          (pc[w] = "Forgot:update" /\ pc'[w] = "idle" /\ loc[w].id \in DOMAIN users)
          => /\ users'[loc[w].id].password_reset_token = loc[w].token
             /\ users'[loc[w].id].password_reset_expires_at = loc[w].expiresAt
    /\ (/\ Accepts("ResetPassword")
        /\ RowsOfResetToken(Accepted.token) # {}
        /\ \A i \in RowsOfResetToken(Accepted.token) :
              now > users[i].password_reset_expires_at)
       => /\ Returns("ResetPassword")
          /\ last'.resp.err = "ErrInvalidPasswordResetToken"
          /\ ~last'.resp.success
          /\ users' = users

\* C24: an expired reset token is refused; every step of a behaviour
\* satisfies C24_Step.
C24_ExpiredResetRefused == [][C24_Step]_vars

\* a ResetPassword call was refused for a token that is still stored with an
\* expiry in the past
C24_Witness ==
    /\ last.req.op = "ResetPassword"
    /\ last.resp.err = "ErrInvalidPasswordResetToken"
    /\ last.resp.message = "Password reset token has expired"
    /\ \E i \in RowsOfResetToken(last.req.token) :
          /\ now > users[i].password_reset_expires_at
          /\ users[i].password_hash = hashPassword("Str0ng!Pass")

----------------------------------------------------------------------------
(* ForgotPassword and the existence of an account *)

\* what ForgotPassword answers for an address without a user record
ForgotUnregistered == Response("nil", TRUE, GenericForgotMessage, NoUser, NoTokens)

\* C25: every ForgotPassword call is answered as a call for an address
\* without a user record is, so that two runs that differ only in whether the
\* address has a record show the caller the same outcome.
C25_Step ==
    Returns("ForgotPassword") => last'.resp = ForgotUnregistered

\* C25: ForgotPassword does not reveal whether an address is registered;
\* every step of a behaviour satisfies C25_Step.
C25_ForgotSameOutcome == [][C25_Step]_vars
----------------------------------------------------------------------------
(* Register calls that race for one e-mail address *)

\* C26: when the store rejects the INSERT of a Register call because a record
\* with the address exists (a concurrent Register passed the same lookup and
\* inserted first), the call returns ErrUserAlreadyExists, and the step
\* leaves at most one record with that address.
C26_Step ==
    \A w \in Workers :
      (pc[w] = "Register:create" /\ pc'[w] = "idle" /\ EmailTaken(req[w].email))
      => /\ last'.req = req[w]
         /\ last'.resp.err = "ErrUserAlreadyExists"
         /\ Cardinality({i \in DOMAIN users' : users'[i].email = req[w].email}) <= 1

\* C26: a Register call that loses the race reports ErrUserAlreadyExists;
\* every step of a behaviour satisfies C26_Step.
C26_RaceLoserTold == [][C26_Step]_vars

----------------------------------------------------------------------------
(* ResetPassword and the write it reports *)

\* C27: a ResetPassword call returns success only if its own UPDATE replaced
\* a password hash: the UPDATE of a call answered "Password reset
\* successfully" matched a record, and that record holds the hash of the
\* call's new password after the step.
C27_Step ==
    \A w \in Workers :
      (/\ pc[w] = "Reset:update" /\ pc'[w] = "idle"
       /\ last'.req = req[w]
       /\ last'.resp.success)
      => \E i \in DOMAIN users :
           /\ users[i].password_reset_token = req[w].token
           /\ users'[i].password_hash = hashPassword(req[w].password)

\* C27: success means the call's own write took effect;
\* every step of a behaviour satisfies C27_Step.
C27_SuccessMeansWritten == [][C27_Step]_vars

----------------------------------------------------------------------------
(* VerifyEmail and the user it reports as verified *)

\* C28: a VerifyEmail call returns success only if the user it looked up is
\* verified when it returns: after the UPDATE of a call answered "Email
\* verified successfully", the record the lookup returned has email_verified
\* set.
C28_Step ==
    \A w \in Workers :
      (/\ pc[w] = "VerifyEmail:update" /\ pc'[w] = "idle"
       /\ last'.req = req[w]
       /\ last'.resp.success)
      => /\ loc[w].id \in DOMAIN users'
         /\ users'[loc[w].id].email_verified

\* C28: success means the looked-up user is verified;
\* every step of a behaviour satisfies C28_Step.
C28_SuccessMeansVerified == [][C28_Step]_vars

----------------------------------------------------------------------------
(* verified users and verification tokens *)

\* C29: in every reachable state, under every interleaving of Register,
\* VerifyEmail and ResendVerificationEmail, a user whose email_verified is
\* true holds no verification token and no token expiry; in particular no
\* Resend has stored a token on a user that was verified when it wrote.
C29_VerifiedHoldsNoToken ==
    \A i \in DOMAIN users :
      users[i].email_verified
      => /\ users[i].email_verification_token = NULL
         /\ users[i].email_verification_expires_at = NULL

----------------------------------------------------------------------------
(* tokens shorter than the logged prefix *)

\* C30: VerifyEmail and ResetPassword return an ordinary result or error for
\* every non-empty token: a call with a token shorter than 8 characters
\* returns the invalid-token error of its operation and never ends in an
\* out-of-range panic.
C30_Step ==
    /\ (Returns("VerifyEmail") /\ last'.req.token = ShortToken)
       => last'.resp.err = "ErrInvalidVerificationToken"
    /\ (Returns("ResetPassword") /\ last'.req.token = ShortToken)
       => last'.resp.err = "ErrInvalidPasswordResetToken"

\* C30: short tokens are refused as invalid; every step of a behaviour
\* satisfies C30_Step.
C30_ShortTokenRefused == [][C30_Step]_vars

====
